---- MODULE Spec2Model ----
(***************************************************************************)
(* Portfolio ledger of StockTrading: UserProfile                           *)
(* (stock_management/models/user_profile_model.py).                        *)
(*                                                                         *)
(* The ledger lives in two SQL tables.  users holds one cash_balance per   *)
(* user id; portfolio holds rows (user_id, stock_symbol, quantity,         *)
(* deleted).  Every method opens its own connection with                   *)
(* get_db_connection(); what a connection wrote becomes visible only at    *)
(* its conn.commit(), and a connection that is left by an exception is     *)
(* closed without a commit, which discards what it wrote.  Money is        *)
(* counted in whole units.                                                 *)
(*                                                                         *)
(* login_user and logout_user (stock_management/models/                    *)
(* mongo_session_model.py) copy the ledger to and from one document per    *)
(* user of the MongoDB collection sessions_collection.  The UserProfile    *)
(* object itself keeps the attribute self.cash_balance, which __init__     *)
(* sets and no method assigns again.  The application (app.py) serves     *)
(* every user with one UserProfile.                                        *)
(*                                                                         *)
(* fetch_historical_data (stock_management/models/stock_model.py) checks   *)
(* two date texts, asks the upstream API for the daily series of a symbol  *)
(* and returns the days between the two dates.                             *)
(***************************************************************************)
EXTENDS Integers, Sequences, FiniteSets, TLC

\* ---------------------------------------------------------------- bounds
MaxRows == 2      \* rows the portfolio table may hold
MaxHold == 2      \* largest quantity of a row and of a call
MaxCash == 3      \* largest cash_balance
MaxDebt == 1      \* largest overdraft of cash_balance
MaxPrice == 2     \* largest price the quote client answers
MaxAmount == 2    \* largest |amount| of update_cash_balance
MaxOpening == 1   \* largest cash_balance a UserProfile is constructed with
MaxDay == 9       \* last day of December 2024 a caller asks history for

Symbols == {"AAPL", "TSLA"}
Quantities == -1 .. MaxHold
Amounts == -MaxAmount .. MaxAmount
Prices == 0 .. MaxPrice

\* bought_price as the route /api/add-stock reads it from the request.
BoughtPrices == -1 .. MaxPrice

\* self.user_id as __init__ leaves it; no method assigns it again.
user_id == 0

\* --------------------------------------------------------- quote client
\* self.get_stock_price(symbol): the lookup either raises or answers a
\* price, which is never negative.
QuoteOutcomes ==
    {[ok |-> FALSE, price |-> 0]} \cup {[ok |-> TRUE, price |-> p] : p \in Prices}

\* ------------------------------------------------------------- failures
\* The statement of a method at which sqlite3 raises ("none": nowhere).
AddFaults == {"none", "select", "write", "commit"}
RemoveFaults == {"none", "select", "write", "commit"}
CashFaults == {"none", "write", "commit"}
ClearFaults == {"none", "write", "commit"}
BuyFaults == {"none", "select", "debit", "add", "commit"}
SellFaults == {"none", "select", "remove", "credit", "commit"}

LoginFaults == {"none", "find", "insert", "clear", "add", "cash"}
LogoutFaults == {"none", "select", "update", "clear"}

VARIABLES
    cash_balance,       \* users.cash_balance of the row of user_id
    portfolio,          \* the rows of table portfolio, in insertion order
    self_cash_balance,  \* the attribute self.cash_balance of the UserProfile
    sessions,           \* sessions_collection: one document per user, or none
    last,               \* the most recent call (kept by the logging specifications)
    fetched,            \* the most recent call of fetch_historical_data
    buying              \* where each caller of an interleaved buy_stock is

vars == <<cash_balance, portfolio, self_cash_balance, sessions, last, fetched, buying>>

\* ------------------------------------------------------------- helpers
SetMin(S) == CHOOSE x \in S : \A y \in S : x <= y
SetMax(S) == CHOOSE x \in S : \A y \in S : x >= y

\* INSERT INTO portfolio (user_id, stock_symbol, quantity, deleted)
\* VALUES (?, ?, ?, 0)
NewRow(uid, symbol, quantity) ==
    [user_id |-> uid, stock_symbol |-> symbol, quantity |-> quantity, deleted |-> 0]

\* WHERE user_id = ? AND stock_symbol = ? AND deleted = 0
LiveRows(rows, uid, symbol) ==
    {i \in 1 .. Len(rows) : /\ rows[i].user_id = uid
                            /\ rows[i].stock_symbol = symbol
                            /\ rows[i].deleted = 0}

\* WHERE user_id = ? AND stock_symbol = ?   (no test of deleted)
AllRows(rows, uid, symbol) ==
    {i \in 1 .. Len(rows) : /\ rows[i].user_id = uid
                            /\ rows[i].stock_symbol = symbol}

\* get_portfolio: SELECT stock_symbol, quantity ... WHERE user_id = ? AND
\* deleted = 0, then {row[0]: row[1] for row in rows}: of two rows with one
\* symbol the later one is kept.
get_portfolio(rows, uid) ==
    LET live == {i \in 1 .. Len(rows) : rows[i].user_id = uid /\ rows[i].deleted = 0}
        syms == {rows[i].stock_symbol : i \in live}
    IN  [s \in syms |->
            rows[SetMax({i \in live : rows[i].stock_symbol = s})].quantity]

\* Quantity of symbol as get_portfolio shows it, 0 when it shows none.
Held(rows, uid, symbol) ==
    LET p == get_portfolio(rows, uid)
    IN  IF symbol \in DOMAIN p THEN p[symbol] ELSE 0

\* ---------------------------------------------------------- operations
\* Each operation maps the committed tables and its arguments to the
\* committed tables afterwards and the way the call ended.

\* add_stock_to_portfolio whose UPDATE stores the quantity of the call in
\* place of the sum.
add_stock_to_portfolio_overwrite(rows, uid, symbol, quantity, fault) ==
    IF quantity <= 0 THEN [portfolio |-> rows, result |-> "InvalidArgument"]
    ELSE IF fault = "select" THEN [portfolio |-> rows, result |-> "DatabaseError"]
    ELSE
      LET live == LiveRows(rows, uid, symbol)
          written ==
            IF live # {}
            THEN LET new_quantity == quantity
                 IN  [i \in 1 .. Len(rows) |->
                        IF i \in live
                        THEN [rows[i] EXCEPT !.quantity = new_quantity]
                        ELSE rows[i]]
            ELSE Append(rows, NewRow(uid, symbol, quantity))
      IN  IF fault \in {"write", "commit"}
          THEN [portfolio |-> rows, result |-> "DatabaseError"]
          ELSE [portfolio |-> written, result |-> "ok"]

\* add_stock_to_portfolio whose SELECT and UPDATE leave out deleted = 0: a
\* row marked deleted counts as the holding.
add_stock_to_portfolio_any_row(rows, uid, symbol, quantity, fault) ==
    IF quantity <= 0 THEN [portfolio |-> rows, result |-> "InvalidArgument"]
    ELSE IF fault = "select" THEN [portfolio |-> rows, result |-> "DatabaseError"]
    ELSE
      LET live == AllRows(rows, uid, symbol)
          written ==
            IF live # {}
            THEN LET new_quantity == rows[SetMin(live)].quantity + quantity
                 IN  [i \in 1 .. Len(rows) |->
                        IF i \in live
                        THEN [rows[i] EXCEPT !.quantity = new_quantity]
                        ELSE rows[i]]
            ELSE Append(rows, NewRow(uid, symbol, quantity))
      IN  IF fault \in {"write", "commit"}
          THEN [portfolio |-> rows, result |-> "DatabaseError"]
          ELSE [portfolio |-> written, result |-> "ok"]

add_stock_to_portfolio(rows, uid, symbol, quantity, fault) ==
    IF quantity <= 0 THEN [portfolio |-> rows, result |-> "InvalidArgument"]
    ELSE IF fault = "select" THEN [portfolio |-> rows, result |-> "DatabaseError"]
    ELSE
      LET live == LiveRows(rows, uid, symbol)
          written ==
            IF live # {}
            THEN LET new_quantity == rows[SetMin(live)].quantity + quantity
                 IN  [i \in 1 .. Len(rows) |->
                        IF i \in live
                        THEN [rows[i] EXCEPT !.quantity = new_quantity]
                        ELSE rows[i]]
            ELSE Append(rows, NewRow(uid, symbol, quantity))
      IN  IF fault \in {"write", "commit"}
          THEN [portfolio |-> rows, result |-> "DatabaseError"]
          ELSE [portfolio |-> written, result |-> "ok"]

\* remove_stock_from_holding that only ever decrements: the branch that
\* marks the row deleted is lost.
remove_stock_from_holding_no_delete(rows, uid, symbol, quantity, fault) ==
    IF quantity < 1 THEN [portfolio |-> rows, result |-> "InvalidArgument"]
    ELSE IF fault = "select" THEN [portfolio |-> rows, result |-> "DatabaseError"]
    ELSE
      LET live == LiveRows(rows, uid, symbol)
      IN  IF live = {} THEN [portfolio |-> rows, result |-> "NotFound"]
          ELSE
            LET current_quantity == rows[SetMin(live)].quantity
                hit == AllRows(rows, uid, symbol)
                written ==
                  IF FALSE
                  THEN rows
                  ELSE [i \in 1 .. Len(rows) |->
                          IF i \in hit
                          THEN [rows[i] EXCEPT !.quantity = rows[i].quantity - quantity]
                          ELSE rows[i]]
            IN  IF quantity > current_quantity
                THEN [portfolio |-> rows, result |-> "InsufficientQuantity"]
                ELSE IF fault \in {"write", "commit"}
                THEN [portfolio |-> rows, result |-> "DatabaseError"]
                ELSE [portfolio |-> written, result |-> "ok"]

\* remove_stock_from_holding that marks the row deleted whatever quantity
\* is taken off.
remove_stock_from_holding_delete_always(rows, uid, symbol, quantity, fault) ==
    IF quantity < 1 THEN [portfolio |-> rows, result |-> "InvalidArgument"]
    ELSE IF fault = "select" THEN [portfolio |-> rows, result |-> "DatabaseError"]
    ELSE
      LET live == LiveRows(rows, uid, symbol)
      IN  IF live = {} THEN [portfolio |-> rows, result |-> "NotFound"]
          ELSE
            LET current_quantity == rows[SetMin(live)].quantity
                hit == AllRows(rows, uid, symbol)
                written ==
                  [i \in 1 .. Len(rows) |->
                     IF i \in hit THEN [rows[i] EXCEPT !.deleted = 1]
                     ELSE rows[i]]
            IN  IF quantity > current_quantity
                THEN [portfolio |-> rows, result |-> "InsufficientQuantity"]
                ELSE IF fault \in {"write", "commit"}
                THEN [portfolio |-> rows, result |-> "DatabaseError"]
                ELSE [portfolio |-> written, result |-> "ok"]

\* remove_stock_from_holding whose SELECT forgets deleted = 0.
remove_stock_from_holding_any_row(rows, uid, symbol, quantity, fault) ==
    IF quantity < 1 THEN [portfolio |-> rows, result |-> "InvalidArgument"]
    ELSE IF fault = "select" THEN [portfolio |-> rows, result |-> "DatabaseError"]
    ELSE
      LET live == AllRows(rows, uid, symbol)
      IN  IF live = {} THEN [portfolio |-> rows, result |-> "NotFound"]
          ELSE
            LET current_quantity == rows[SetMin(live)].quantity
                hit == AllRows(rows, uid, symbol)
                written ==
                  IF quantity = current_quantity
                  THEN [i \in 1 .. Len(rows) |->
                          IF i \in hit THEN [rows[i] EXCEPT !.deleted = 1]
                          ELSE rows[i]]
                  ELSE [i \in 1 .. Len(rows) |->
                          IF i \in hit
                          THEN [rows[i] EXCEPT !.quantity = rows[i].quantity - quantity]
                          ELSE rows[i]]
            IN  IF quantity > current_quantity
                THEN [portfolio |-> rows, result |-> "InsufficientQuantity"]
                ELSE IF fault \in {"write", "commit"}
                THEN [portfolio |-> rows, result |-> "DatabaseError"]
                ELSE [portfolio |-> written, result |-> "ok"]

remove_stock_from_holding(rows, uid, symbol, quantity, fault) ==
    IF quantity < 1 THEN [portfolio |-> rows, result |-> "InvalidArgument"]
    ELSE IF fault = "select" THEN [portfolio |-> rows, result |-> "DatabaseError"]
    ELSE
      LET live == LiveRows(rows, uid, symbol)
      IN  IF live = {} THEN [portfolio |-> rows, result |-> "NotFound"]
          ELSE
            LET current_quantity == rows[SetMin(live)].quantity
                hit == AllRows(rows, uid, symbol)
                written ==
                  IF quantity = current_quantity
                  THEN [i \in 1 .. Len(rows) |->
                          IF i \in hit THEN [rows[i] EXCEPT !.deleted = 1]
                          ELSE rows[i]]
                  ELSE [i \in 1 .. Len(rows) |->
                          IF i \in hit
                          THEN [rows[i] EXCEPT !.quantity = rows[i].quantity - quantity]
                          ELSE rows[i]]
            IN  IF quantity > current_quantity
                THEN [portfolio |-> rows, result |-> "InsufficientQuantity"]
                ELSE IF fault \in {"write", "commit"}
                THEN [portfolio |-> rows, result |-> "DatabaseError"]
                ELSE [portfolio |-> written, result |-> "ok"]

\* update_cash_balance that stores the amount in place of the sum.
\* add_stock_to_portfolio_route: the route hands symbol, quantity and
\* bought_price to add_stock_to_portfolio, whose parameters are user_id,
\* symbol and quantity: no statement of the method reads a price.
add_stock_to_portfolio_route(rows, symbol, quantity, bought_price, fault) ==
    add_stock_to_portfolio(rows, user_id, symbol, quantity, fault)

\* update_cash_balance that stores the amount in place of the sum.
update_cash_balance_set(cash, amount, fault) ==
    IF fault \in {"write", "commit"}
    THEN [cash |-> cash, result |-> "DatabaseError"]
    ELSE [cash |-> amount, result |-> "ok"]

update_cash_balance(cash, amount, fault) ==
    IF fault \in {"write", "commit"}
    THEN [cash |-> cash, result |-> "DatabaseError"]
    ELSE [cash |-> cash + amount, result |-> "ok"]

\* clear_all_stock whose UPDATE flips the flag of every row of the user
\* (SET deleted = 1 - deleted).
clear_all_stock_flip(rows, uid, fault) ==
    IF fault \in {"write", "commit"}
    THEN [portfolio |-> rows, result |-> "DatabaseError"]
    ELSE [portfolio |->
            [i \in 1 .. Len(rows) |->
               IF rows[i].user_id = uid
               THEN [rows[i] EXCEPT !.deleted = 1 - rows[i].deleted]
               ELSE rows[i]],
          result |-> "ok"]

clear_all_stock(rows, uid, fault) ==
    IF fault \in {"write", "commit"}
    THEN [portfolio |-> rows, result |-> "DatabaseError"]
    ELSE [portfolio |->
            [i \in 1 .. Len(rows) |->
               IF rows[i].user_id = uid THEN [rows[i] EXCEPT !.deleted = 1]
               ELSE rows[i]],
          result |-> "ok"]

\* buy_stock that compares the balance with the price of one share.
buy_stock_unit_price_check(cash, rows, symbol, quantity, quote, fault) ==
    IF quantity < 1
    THEN [cash |-> cash, portfolio |-> rows, result |-> "InvalidArgument", fetches |-> 0]
    ELSE IF ~quote.ok
    THEN [cash |-> cash, portfolio |-> rows, result |-> "QuoteUnavailable", fetches |-> 1]
    ELSE
      LET stock_price == quote.price
          total_cost == stock_price * quantity
          added == add_stock_to_portfolio(rows, user_id, symbol, quantity,
                                          IF fault = "add" THEN "write" ELSE "none")
      IN  IF fault = "select"
          THEN [cash |-> cash, portfolio |-> rows, result |-> "DatabaseError", fetches |-> 1]
          ELSE IF cash < stock_price
          THEN [cash |-> cash, portfolio |-> rows, result |-> "InsufficientFunds", fetches |-> 1]
          ELSE IF fault = "debit"
          THEN [cash |-> cash, portfolio |-> rows, result |-> "DatabaseError", fetches |-> 1]
          ELSE IF added.result # "ok"
          THEN [cash |-> cash, portfolio |-> rows, result |-> added.result, fetches |-> 1]
          ELSE IF fault = "commit"
          THEN [cash |-> cash, portfolio |-> added.portfolio,
                result |-> "DatabaseError", fetches |-> 1]
          ELSE [cash |-> cash - total_cost, portfolio |-> added.portfolio,
                result |-> "ok", fetches |-> 1]

\* buy_stock that refuses a cost equal to the balance.
buy_stock_strict_funds(cash, rows, symbol, quantity, quote, fault) ==
    IF quantity < 1
    THEN [cash |-> cash, portfolio |-> rows, result |-> "InvalidArgument", fetches |-> 0]
    ELSE IF ~quote.ok
    THEN [cash |-> cash, portfolio |-> rows, result |-> "QuoteUnavailable", fetches |-> 1]
    ELSE
      LET stock_price == quote.price
          total_cost == stock_price * quantity
          added == add_stock_to_portfolio(rows, user_id, symbol, quantity,
                                          IF fault = "add" THEN "write" ELSE "none")
      IN  IF fault = "select"
          THEN [cash |-> cash, portfolio |-> rows, result |-> "DatabaseError", fetches |-> 1]
          ELSE IF cash <= total_cost
          THEN [cash |-> cash, portfolio |-> rows, result |-> "InsufficientFunds", fetches |-> 1]
          ELSE IF fault = "debit"
          THEN [cash |-> cash, portfolio |-> rows, result |-> "DatabaseError", fetches |-> 1]
          ELSE IF added.result # "ok"
          THEN [cash |-> cash, portfolio |-> rows, result |-> added.result, fetches |-> 1]
          ELSE IF fault = "commit"
          THEN [cash |-> cash, portfolio |-> added.portfolio,
                result |-> "DatabaseError", fetches |-> 1]
          ELSE [cash |-> cash - total_cost, portfolio |-> added.portfolio,
                result |-> "ok", fetches |-> 1]

\* buy_stock that looks the price up again for the debit, after the market
\* moved by one.
buy_stock_refetch(cash, rows, symbol, quantity, quote, fault) ==
    IF quantity < 1
    THEN [cash |-> cash, portfolio |-> rows, result |-> "InvalidArgument", fetches |-> 0]
    ELSE IF ~quote.ok
    THEN [cash |-> cash, portfolio |-> rows, result |-> "QuoteUnavailable", fetches |-> 1]
    ELSE
      LET stock_price == quote.price
          total_cost == (stock_price + 1) * quantity
          added == add_stock_to_portfolio(rows, user_id, symbol, quantity,
                                          IF fault = "add" THEN "write" ELSE "none")
      IN  IF fault = "select"
          THEN [cash |-> cash, portfolio |-> rows, result |-> "DatabaseError", fetches |-> 1]
          ELSE IF cash < total_cost
          THEN [cash |-> cash, portfolio |-> rows, result |-> "InsufficientFunds", fetches |-> 1]
          ELSE IF fault = "debit"
          THEN [cash |-> cash, portfolio |-> rows, result |-> "DatabaseError", fetches |-> 1]
          ELSE IF added.result # "ok"
          THEN [cash |-> cash, portfolio |-> rows, result |-> added.result, fetches |-> 1]
          ELSE IF fault = "commit"
          THEN [cash |-> cash, portfolio |-> added.portfolio,
                result |-> "DatabaseError", fetches |-> 1]
          ELSE [cash |-> cash - total_cost, portfolio |-> added.portfolio,
                result |-> "ok", fetches |-> 2]

\* sell_stock that credits the price of one share.
sell_stock_credit_unit(cash, rows, symbol, quantity, quote, fault) ==
    IF quantity < 1
    THEN [cash |-> cash, portfolio |-> rows, result |-> "InvalidArgument", fetches |-> 0]
    ELSE IF ~quote.ok
    THEN [cash |-> cash, portfolio |-> rows, result |-> "QuoteUnavailable", fetches |-> 1]
    ELSE
      LET stock_price == quote.price
          total_revenue == stock_price * quantity
          live == LiveRows(rows, user_id, symbol)
          removed == remove_stock_from_holding(rows, user_id, symbol, quantity,
                                               IF fault = "remove" THEN "write" ELSE "none")
      IN  IF fault = "select"
          THEN [cash |-> cash, portfolio |-> rows, result |-> "DatabaseError", fetches |-> 1]
          ELSE IF live = {} \/ rows[SetMin(live)].quantity < quantity
          THEN [cash |-> cash, portfolio |-> rows, result |-> "NotEnoughShares", fetches |-> 1]
          ELSE IF removed.result # "ok"
          THEN [cash |-> cash, portfolio |-> rows, result |-> removed.result, fetches |-> 1]
          ELSE IF fault \in {"credit", "commit"}
          THEN [cash |-> cash, portfolio |-> removed.portfolio,
                result |-> "DatabaseError", fetches |-> 1]
          ELSE [cash |-> cash + stock_price, portfolio |-> removed.portfolio,
                result |-> "ok", fetches |-> 1]

\* sell_stock whose SELECT forgets deleted = 0.
sell_stock_any_row(cash, rows, symbol, quantity, quote, fault) ==
    IF quantity < 1
    THEN [cash |-> cash, portfolio |-> rows, result |-> "InvalidArgument", fetches |-> 0]
    ELSE IF ~quote.ok
    THEN [cash |-> cash, portfolio |-> rows, result |-> "QuoteUnavailable", fetches |-> 1]
    ELSE
      LET stock_price == quote.price
          total_revenue == stock_price * quantity
          live == AllRows(rows, user_id, symbol)
          removed == remove_stock_from_holding(rows, user_id, symbol, quantity,
                                               IF fault = "remove" THEN "write" ELSE "none")
      IN  IF fault = "select"
          THEN [cash |-> cash, portfolio |-> rows, result |-> "DatabaseError", fetches |-> 1]
          ELSE IF live = {} \/ rows[SetMin(live)].quantity < quantity
          THEN [cash |-> cash, portfolio |-> rows, result |-> "NotEnoughShares", fetches |-> 1]
          ELSE IF removed.result # "ok"
          THEN [cash |-> cash, portfolio |-> rows, result |-> removed.result, fetches |-> 1]
          ELSE IF fault \in {"credit", "commit"}
          THEN [cash |-> cash, portfolio |-> removed.portfolio,
                result |-> "DatabaseError", fetches |-> 1]
          ELSE [cash |-> cash + total_revenue, portfolio |-> removed.portfolio,
                result |-> "ok", fetches |-> 1]

\* buy_stock that debits the price of one share whatever the quantity.
buy_stock_debit_unit(cash, rows, symbol, quantity, quote, fault) ==
    IF quantity < 1
    THEN [cash |-> cash, portfolio |-> rows, result |-> "InvalidArgument", fetches |-> 0]
    ELSE IF ~quote.ok
    THEN [cash |-> cash, portfolio |-> rows, result |-> "QuoteUnavailable", fetches |-> 1]
    ELSE
      LET stock_price == quote.price
          total_cost == stock_price * quantity
          added == add_stock_to_portfolio(rows, user_id, symbol, quantity,
                                          IF fault = "add" THEN "write" ELSE "none")
      IN  IF fault = "select"
          THEN [cash |-> cash, portfolio |-> rows, result |-> "DatabaseError", fetches |-> 1]
          ELSE IF cash < total_cost
          THEN [cash |-> cash, portfolio |-> rows, result |-> "InsufficientFunds", fetches |-> 1]
          ELSE IF fault = "debit"
          THEN [cash |-> cash, portfolio |-> rows, result |-> "DatabaseError", fetches |-> 1]
          ELSE IF added.result # "ok"
          THEN [cash |-> cash, portfolio |-> rows, result |-> added.result, fetches |-> 1]
          ELSE IF fault = "commit"
          THEN [cash |-> cash, portfolio |-> added.portfolio,
                result |-> "DatabaseError", fetches |-> 1]
          ELSE [cash |-> cash - stock_price, portfolio |-> added.portfolio,
                result |-> "ok", fetches |-> 1]

\* buy_stock: the debit is written on the method's own connection and is
\* committed last; add_stock_to_portfolio commits on a connection of its own.
buy_stock(cash, rows, symbol, quantity, quote, fault) ==
    IF quantity < 1
    THEN [cash |-> cash, portfolio |-> rows, result |-> "InvalidArgument", fetches |-> 0]
    ELSE IF ~quote.ok
    THEN [cash |-> cash, portfolio |-> rows, result |-> "QuoteUnavailable", fetches |-> 1]
    ELSE
      LET stock_price == quote.price
          total_cost == stock_price * quantity
          added == add_stock_to_portfolio(rows, user_id, symbol, quantity,
                                          IF fault = "add" THEN "write" ELSE "none")
      IN  IF fault = "select"
          THEN [cash |-> cash, portfolio |-> rows, result |-> "DatabaseError", fetches |-> 1]
          ELSE IF cash < total_cost
          THEN [cash |-> cash, portfolio |-> rows, result |-> "InsufficientFunds", fetches |-> 1]
          ELSE IF fault = "debit"
          THEN [cash |-> cash, portfolio |-> rows, result |-> "DatabaseError", fetches |-> 1]
          ELSE IF added.result # "ok"
          THEN [cash |-> cash, portfolio |-> rows, result |-> added.result, fetches |-> 1]
          ELSE IF fault = "commit"
          THEN [cash |-> cash, portfolio |-> added.portfolio,
                result |-> "DatabaseError", fetches |-> 1]
          ELSE [cash |-> cash - total_cost, portfolio |-> added.portfolio,
                result |-> "ok", fetches |-> 1]

\* sell_stock: remove_stock_from_holding commits on a connection of its own
\* before the credit is written and committed.
sell_stock(cash, rows, symbol, quantity, quote, fault) ==
    IF quantity < 1
    THEN [cash |-> cash, portfolio |-> rows, result |-> "InvalidArgument", fetches |-> 0]
    ELSE IF ~quote.ok
    THEN [cash |-> cash, portfolio |-> rows, result |-> "QuoteUnavailable", fetches |-> 1]
    ELSE
      LET stock_price == quote.price
          total_revenue == stock_price * quantity
          live == LiveRows(rows, user_id, symbol)
          removed == remove_stock_from_holding(rows, user_id, symbol, quantity,
                                               IF fault = "remove" THEN "write" ELSE "none")
      IN  IF fault = "select"
          THEN [cash |-> cash, portfolio |-> rows, result |-> "DatabaseError", fetches |-> 1]
          ELSE IF live = {} \/ rows[SetMin(live)].quantity < quantity
          THEN [cash |-> cash, portfolio |-> rows, result |-> "NotEnoughShares", fetches |-> 1]
          ELSE IF removed.result # "ok"
          THEN [cash |-> cash, portfolio |-> rows, result |-> removed.result, fetches |-> 1]
          ELSE IF fault \in {"credit", "commit"}
          THEN [cash |-> cash, portfolio |-> removed.portfolio,
                result |-> "DatabaseError", fetches |-> 1]
          ELSE [cash |-> cash + total_revenue, portfolio |-> removed.portfolio,
                result |-> "ok", fetches |-> 1]

\* ------------------------------------------------------- state machine
\* `last` is the most recent call with its arguments and the way it ended;
\* only SpecLog keeps it, Spec leaves it at its first value.
NoQuote == [ok |-> FALSE, price |-> 0]

Call(op, symbol, quantity, amount, quote, fault, result) ==
    [op |-> op, symbol |-> symbol, quantity |-> quantity, amount |-> amount,
     quote |-> quote, fault |-> fault, result |-> result]

NoCall == Call("none", "", 0, 0, NoQuote, "none", "ok")

Record(log, call) == last' = IF log THEN call ELSE last

\* A failure injected at a statement the call never reaches is the call
\* without the failure; it is taken once, as the latter.
Reached(fault, result) == fault # "none" => result = "DatabaseError"

\* The tables stay within the bounds of the model.
WithinBounds(cash, rows) ==
    /\ cash \in -MaxDebt .. MaxCash
    /\ Len(rows) <= MaxRows
    /\ \A i \in 1 .. Len(rows) : rows[i].quantity \in 1 - MaxHold .. MaxHold

\* The users that log in and out; the ledger itself is always that of
\* self.user_id.
SessionUsers == {1}

\* The users of the application: every one of them is served by the one
\* UserProfile() that create_app constructs.
AppUsers == {1, 2}

\* find_one answers None: the user has no session document.
NoSession == [found |-> FALSE, current_stock_holding |-> <<>>, cash_balance |-> 0]

\* {"user_id": ..., "current_stock_holding": stocks, "cash_balance": cash}
SessionDocument(stocks, cash) ==
    [found |-> TRUE, current_stock_holding |-> stocks, cash_balance |-> cash]

\* ------------------------------------------------------------ sessions
\* user_profile_model.add_stock_to_holding(symbol, quantity), which
\* login_user calls for every stored holding: it adds the shares to the
\* holding as add_stock_to_portfolio does.
add_stock_to_holding(rows, uid, symbol, quantity, fault) ==
    add_stock_to_portfolio(rows, uid, symbol, quantity, fault)

\* for symbol, quantity in stocks.items(): add_stock_to_holding(symbol,
\* quantity).  Every call commits on its own; the loop ends at the first
\* call that raises.  The stored holdings are of distinct symbols, so the
\* order of the calls decides only the order of the rows.
RECURSIVE LoadStocks(_, _, _, _)
LoadStocks(rows, stocks, todo, fault) ==
    IF todo = {} THEN [portfolio |-> rows, result |-> "ok"]
    ELSE
      LET symbol == CHOOSE s \in todo : TRUE
          added == add_stock_to_holding(rows, user_id, symbol, stocks[symbol], fault)
      IN  IF added.result # "ok"
          THEN [portfolio |-> added.portfolio, result |-> added.result]
          ELSE LoadStocks(added.portfolio, stocks, todo \ {symbol}, "none")

\* login_user that clears the stock of the profile before it looks for the
\* session, so also when it finds none.
login_user_clear_first(cash, rows, session, fault) ==
    IF fault = "find"
    THEN [cash |-> cash, portfolio |-> rows, session |-> session,
          result |-> "DatabaseError"]
    ELSE IF session.found
    THEN
      LET cleared == clear_all_stock(rows, user_id,
                                     IF fault = "clear" THEN "write" ELSE "none")
          stocks == session.current_stock_holding
          loaded == LoadStocks(cleared.portfolio, stocks, DOMAIN stocks,
                               IF fault = "add" THEN "write" ELSE "none")
          paid == update_cash_balance(cash, session.cash_balance,
                                      IF fault = "cash" THEN "write" ELSE "none")
      IN  IF cleared.result # "ok"
          THEN [cash |-> cash, portfolio |-> rows, session |-> session,
                result |-> cleared.result]
          ELSE IF loaded.result # "ok"
          THEN [cash |-> cash, portfolio |-> loaded.portfolio, session |-> session,
                result |-> loaded.result]
          ELSE IF paid.result # "ok"
          THEN [cash |-> cash, portfolio |-> loaded.portfolio, session |-> session,
                result |-> paid.result]
          ELSE [cash |-> paid.cash, portfolio |-> loaded.portfolio,
                session |-> session, result |-> "ok"]
    ELSE IF fault = "insert"
    THEN [cash |-> cash, portfolio |-> rows, session |-> session,
          result |-> "DatabaseError"]
    ELSE [cash |-> cash, portfolio |-> clear_all_stock(rows, user_id, "none").portfolio,
          session |-> SessionDocument(<<>>, 0), result |-> "ok"]

\* login_user(user_id, user_profile_model); session is what find_one
\* answers for user_id.
login_user(cash, rows, session, fault) ==
    IF fault = "find"
    THEN [cash |-> cash, portfolio |-> rows, session |-> session,
          result |-> "DatabaseError"]
    ELSE IF session.found
    THEN
      LET cleared == clear_all_stock(rows, user_id,
                                     IF fault = "clear" THEN "write" ELSE "none")
          stocks == session.current_stock_holding
          loaded == LoadStocks(cleared.portfolio, stocks, DOMAIN stocks,
                               IF fault = "add" THEN "write" ELSE "none")
          paid == update_cash_balance(cash, session.cash_balance,
                                      IF fault = "cash" THEN "write" ELSE "none")
      IN  IF cleared.result # "ok"
          THEN [cash |-> cash, portfolio |-> rows, session |-> session,
                result |-> cleared.result]
          ELSE IF loaded.result # "ok"
          THEN [cash |-> cash, portfolio |-> loaded.portfolio, session |-> session,
                result |-> loaded.result]
          ELSE IF paid.result # "ok"
          THEN [cash |-> cash, portfolio |-> loaded.portfolio, session |-> session,
                result |-> paid.result]
          ELSE [cash |-> paid.cash, portfolio |-> loaded.portfolio,
                session |-> session, result |-> "ok"]
    ELSE IF fault = "insert"
    THEN [cash |-> cash, portfolio |-> rows, session |-> session,
          result |-> "DatabaseError"]
    ELSE [cash |-> cash, portfolio |-> rows, session |-> SessionDocument(<<>>, 0),
          result |-> "ok"]

\* logout_user whose update_one is called with upsert=True: a user without
\* a document gets one, and the profile is cleared.
logout_user_upsert(cash, rows, self_cash, session, fault) ==
    IF fault = "select"
    THEN [cash |-> cash, portfolio |-> rows, session |-> session,
          result |-> "DatabaseError"]
    ELSE
      LET stocks == get_portfolio(rows, user_id)
          cleared == clear_all_stock(rows, user_id,
                                     IF fault = "clear" THEN "write" ELSE "none")
      IN  IF fault = "update"
          THEN [cash |-> cash, portfolio |-> rows, session |-> session,
                result |-> "DatabaseError"]
          ELSE IF FALSE
          THEN [cash |-> cash, portfolio |-> rows, session |-> session,
                result |-> "NoSession"]
          ELSE [cash |-> cash, portfolio |-> cleared.portfolio,
                session |-> SessionDocument(stocks, self_cash),
                result |-> cleared.result]

\* logout_user(user_id, user_profile_model); self_cash is the attribute
\* user_profile_model.cash_balance.
logout_user(cash, rows, self_cash, session, fault) ==
    IF fault = "select"
    THEN [cash |-> cash, portfolio |-> rows, session |-> session,
          result |-> "DatabaseError"]
    ELSE
      LET stocks == get_portfolio(rows, user_id)
          cleared == clear_all_stock(rows, user_id,
                                     IF fault = "clear" THEN "write" ELSE "none")
      IN  IF fault = "update"
          THEN [cash |-> cash, portfolio |-> rows, session |-> session,
                result |-> "DatabaseError"]
          ELSE IF ~session.found
          THEN [cash |-> cash, portfolio |-> rows, session |-> session,
                result |-> "NoSession"]
          ELSE [cash |-> cash, portfolio |-> cleared.portfolio,
                session |-> SessionDocument(stocks, self_cash),
                result |-> cleared.result]

\* ------------------------------------------------------ historical data
\* fetch_historical_data (stock_management/models/stock_model.py).  A date
\* is the text the caller passes: a sequence of characters.

Digits == <<"0", "1", "2", "3", "4", "5", "6", "7", "8", "9">>

IsDigit(c) == \E n \in 1 .. 10 : Digits[n] = c

DigitValue(c) == (CHOOSE n \in 1 .. 10 : Digits[n] = c) - 1

\* ord(c): the code point Python compares two characters by.
Ord(c) ==
    IF IsDigit(c) THEN 48 + DigitValue(c)
    ELSE CASE c = " " -> 32
           [] c = "-" -> 45
           [] c = "/" -> 47
           [] c = "A" -> 65
           [] c = "D" -> 68
           [] c = "E" -> 69
           [] c = "I" -> 73
           [] c = "L" -> 76
           [] c = "N" -> 78
           [] c = "T" -> 84
           [] c = "V" -> 86
           [] c = "_" -> 95

\* s <= t of two Python strings.
RECURSIVE StrLeq(_, _)
StrLeq(s, t) ==
    IF s = <<>> THEN TRUE
    ELSE IF t = <<>> THEN FALSE
    ELSE IF Ord(Head(s)) < Ord(Head(t)) THEN TRUE
    ELSE IF Ord(Head(s)) > Ord(Head(t)) THEN FALSE
    ELSE StrLeq(Tail(s), Tail(t))

\* The character at position i of t, "" past its end.
CharAt(t, i) == IF i \in 1 .. Len(t) THEN t[i] ELSE ""

IsLeap(year) == (year % 4 = 0 /\ year % 100 # 0) \/ year % 400 = 0

DaysInMonth(year, month) ==
    IF month = 2 THEN (IF IsLeap(year) THEN 29 ELSE 28)
    ELSE IF month \in {4, 6, 9, 11} THEN 30 ELSE 31

NoDate == [ok |-> FALSE, year |-> 0, month |-> 0, day |-> 0]

\* datetime.strptime(t, '%Y-%m-%d').  The format compiles to the pattern
\*   (\d\d\d\d)-(1[0-2]|0[1-9]|[1-9])-(3[01]|[12]\d|0[1-9]|[1-9]| [1-9])
\* which must take the whole of t; the three numbers must then be a date
\* of the calendar.  ok = FALSE stands for the ValueError.
strptime(t) ==
    LET c(i) == CharAt(t, i)
        two(i) == 10 * DigitValue(c(i)) + DigitValue(c(i + 1))
        yearOk == \A i \in 1 .. 4 : IsDigit(c(i))
        year == 100 * two(1) + two(3)
        \* the month and the "-" after it
        month2 == /\ IsDigit(c(6)) /\ IsDigit(c(7)) /\ c(8) = "-"
                  /\ two(6) \in 1 .. 12
        month1 == IsDigit(c(6)) /\ c(6) # "0" /\ c(7) = "-"
        month == IF month2 THEN two(6) ELSE DigitValue(c(6))
        at == IF month2 THEN 9 ELSE 8
        \* the day, and nothing after it
        day2 == /\ IsDigit(c(at)) /\ IsDigit(c(at + 1))
                /\ two(at) \in 1 .. 31
        day1 == IsDigit(c(at)) /\ c(at) # "0"
        dayb == c(at) = " " /\ IsDigit(c(at + 1)) /\ c(at + 1) # "0"
        day == IF day2 THEN two(at)
               ELSE IF day1 THEN DigitValue(c(at))
               ELSE DigitValue(c(at + 1))
        end == IF day2 \/ (~day1 /\ dayb) THEN at + 1 ELSE at
    IN  IF /\ yearOk /\ c(5) = "-"
           /\ month2 \/ month1
           /\ day2 \/ day1 \/ dayb
           /\ Len(t) = end
           /\ year >= 1
           /\ day <= DaysInMonth(year, month)
        THEN [ok |-> TRUE, year |-> year, month |-> month, day |-> day]
        ELSE NoDate

\* The keys of one day of "Time Series (Daily)" that the function reads.
DailyKeys == {"1. open", "2. high", "3. low", "4. close", "6. volume"}

\* daily_data.get(key, "N/A")
DailyGet(daily_data, key) ==
    IF key \in DOMAIN daily_data THEN daily_data[key] ELSE "N/A"

\* The dictionary appended for one day of the series.
HistoricalEntry(date, daily_data) ==
    [date |-> date,
     open |-> DailyGet(daily_data, "1. open"),
     close |-> DailyGet(daily_data, "4. close"),
     high |-> DailyGet(daily_data, "2. high"),
     low |-> DailyGet(daily_data, "3. low"),
     volume |-> DailyGet(daily_data, "6. volume")]

RECURSIVE FilterSeries(_, _, _)
\* for date, daily_data in time_series.items():
\*     if start_date <= date <= end_date: historical_data.append({...})
FilterSeries(time_series, start_date, end_date) ==
    IF time_series = <<>> THEN <<>>
    ELSE LET day == Head(time_series)
             rest == FilterSeries(Tail(time_series), start_date, end_date)
         IN  IF StrLeq(start_date, day.date) /\ StrLeq(day.date, end_date)
             THEN <<HistoricalEntry(day.date, day.daily_data)>> \o rest
             ELSE rest

HistoryResult(result, message, requests, data) ==
    [result |-> result, message |-> message, requests |-> requests, data |-> data]

\* fetch_historical_data that raises when no day of the series is in the
\* range.
fetch_historical_data_raise_empty(start_date, end_date, response) ==
    IF ~strptime(start_date).ok \/ ~strptime(end_date).ok
    THEN HistoryResult("ValueError", "date format", 0, <<>>)
    ELSE IF response.raised
    THEN HistoryResult("RequestException", "", 1, <<>>)
    ELSE IF response.status_code # 200
    THEN HistoryResult("Exception", "status code", 1, <<>>)
    ELSE IF response.error_message
    THEN HistoryResult("ValueError", "invalid symbol", 1, <<>>)
    ELSE IF FilterSeries(response.time_series, start_date, end_date) = <<>>
    THEN HistoryResult("ValueError", "no data", 1, <<>>)
    ELSE HistoryResult("ok", "", 1,
                       FilterSeries(response.time_series, start_date, end_date))

\* fetch_historical_data(symbol, start_date, end_date) when requests.get
\* answers `response`; requests counts the calls of requests.get.  The
\* symbol goes into the request and into the messages only.
fetch_historical_data(start_date, end_date, response) ==
    IF ~strptime(start_date).ok \/ ~strptime(end_date).ok
    THEN HistoryResult("ValueError", "date format", 0, <<>>)
    ELSE IF response.raised
    THEN HistoryResult("RequestException", "", 1, <<>>)
    ELSE IF response.status_code # 200
    THEN HistoryResult("Exception", "status code", 1, <<>>)
    ELSE IF response.error_message
    THEN HistoryResult("ValueError", "invalid symbol", 1, <<>>)
    ELSE IF response.time_series = <<>>
    THEN HistoryResult("ValueError", "no data", 1, <<>>)
    ELSE HistoryResult("ok", "", 1,
                       FilterSeries(response.time_series, start_date, end_date))

\* str of a date in the form YYYY-MM-DD.
IsoDate(year, month, day) ==
    LET digit(n, unit) == Digits[((n \div unit) % 10) + 1]
    IN  <<digit(year, 1000), digit(year, 100), digit(year, 10), digit(year, 1),
          "-", digit(month, 10), digit(month, 1),
          "-", digit(day, 10), digit(day, 1)>>

\* The days of December 2024 the callers ask for.
HistoryDays == 6 .. MaxDay

\* What a caller passes as start_date or end_date.
DateTexts ==
    {IsoDate(2024, 12, d) : d \in HistoryDays}
    \cup {<<"2", "0", "2", "4", "-", "1", "2", "-", "7">>,
          <<"2", "0", "2", "4", "-", "1", "3", "-", "0", "1">>,
          <<"2", "0", "2", "4", "-", "0", "2", "-", "3", "0">>,
          <<"2", "0", "2", "4", "/", "1", "2", "/", "0", "7">>,
          <<"I", "N", "V", "A", "L", "I", "D", "_", "D", "A", "T", "E">>}

\* One day of the upstream series; a day may lack keys.  <<day, k>> stands
\* for the number the upstream gives under key k for that day.
SeriesDay(day, keys) ==
    [date |-> IsoDate(2024, 12, day),
     daily_data |-> [k \in keys |-> <<day, k>>]]

\* "Time Series (Daily)" of the answer, newest day first, none when the
\* key is missing or empty.
TimeSeries ==
    {<<>>,
     <<SeriesDay(8, DailyKeys), SeriesDay(7, DailyKeys)>>,
     <<SeriesDay(9, DailyKeys), SeriesDay(8, DailyKeys \ {"6. volume"}),
       SeriesDay(7, DailyKeys)>>}

\* What requests.get does: it raises, or answers with a status code and a
\* JSON body.
Answer(raised, status_code, error_message, time_series) ==
    [raised |-> raised, status_code |-> status_code,
     error_message |-> error_message, time_series |-> time_series]

Responses ==
    {Answer(TRUE, 0, FALSE, <<>>), Answer(FALSE, 500, FALSE, <<>>),
     Answer(FALSE, 200, TRUE, <<>>)}
    \cup {Answer(FALSE, 200, FALSE, series) : series \in TimeSeries}

\* No call of fetch_historical_data yet.
NoFetch ==
    [op |-> "none", start_date |-> <<>>, end_date |-> <<>>,
     response |-> Answer(TRUE, 0, FALSE, <<>>),
     outcome |-> HistoryResult("ok", "", 0, <<>>)]

\* The callers whose buy_stock calls interleave.
Callers == {1, 2}

\* A caller that is not inside buy_stock.
Idle == [pc |-> "idle", symbol |-> "", quantity |-> 0, total_cost |-> 0]

\* UserProfile(): cash_balance=0, no holdings; no session document yet.
Init ==
    /\ cash_balance = 0
    /\ portfolio = <<>>
    /\ self_cash_balance = 0
    /\ sessions = [u \in AppUsers |-> NoSession]
    /\ last = NoCall
    /\ fetched = NoFetch
    /\ buying = [c \in Callers |-> Idle]

UpdateCashBalance(log) ==
    \E amount \in Amounts, fault \in CashFaults :
        LET r == update_cash_balance(cash_balance, amount, fault)
        IN  /\ WithinBounds(r.cash, portfolio)
            /\ cash_balance' = r.cash
            /\ portfolio' = portfolio
            /\ Record(log, Call("update_cash_balance", "", 0, amount, NoQuote,
                                fault, r.result))
            /\ UNCHANGED <<self_cash_balance, sessions, fetched, buying>>

AddStockToPortfolio(log) ==
    \E symbol \in Symbols, quantity \in Quantities, fault \in AddFaults :
        LET r == add_stock_to_portfolio(portfolio, user_id, symbol, quantity, fault)
        IN  /\ Reached(fault, r.result)
            /\ WithinBounds(cash_balance, r.portfolio)
            /\ portfolio' = r.portfolio
            /\ cash_balance' = cash_balance
            /\ Record(log, Call("add_stock_to_portfolio", symbol, quantity, 0,
                                NoQuote, fault, r.result))
            /\ UNCHANGED <<self_cash_balance, sessions, fetched, buying>>

RemoveStockFromHolding(log) ==
    \E symbol \in Symbols, quantity \in Quantities, fault \in RemoveFaults :
        LET r == remove_stock_from_holding(portfolio, user_id, symbol, quantity, fault)
        IN  /\ Reached(fault, r.result)
            /\ WithinBounds(cash_balance, r.portfolio)
            /\ portfolio' = r.portfolio
            /\ cash_balance' = cash_balance
            /\ Record(log, Call("remove_stock_from_holding", symbol, quantity, 0,
                                NoQuote, fault, r.result))
            /\ UNCHANGED <<self_cash_balance, sessions, fetched, buying>>

BuyStock(log) ==
    \E symbol \in Symbols, quantity \in Quantities, quote \in QuoteOutcomes,
       fault \in BuyFaults :
        LET r == buy_stock(cash_balance, portfolio, symbol, quantity, quote, fault)
        IN  /\ Reached(fault, r.result)
            /\ r.fetches = 0 => quote = NoQuote
            /\ WithinBounds(r.cash, r.portfolio)
            /\ cash_balance' = r.cash
            /\ portfolio' = r.portfolio
            /\ Record(log, Call("buy_stock", symbol, quantity, 0, quote,
                                fault, r.result))
            /\ UNCHANGED <<self_cash_balance, sessions, fetched, buying>>

SellStock(log) ==
    \E symbol \in Symbols, quantity \in Quantities, quote \in QuoteOutcomes,
       fault \in SellFaults :
        LET r == sell_stock(cash_balance, portfolio, symbol, quantity, quote, fault)
        IN  /\ Reached(fault, r.result)
            /\ r.fetches = 0 => quote = NoQuote
            /\ WithinBounds(r.cash, r.portfolio)
            /\ cash_balance' = r.cash
            /\ portfolio' = r.portfolio
            /\ Record(log, Call("sell_stock", symbol, quantity, 0, quote,
                                fault, r.result))
            /\ UNCHANGED <<self_cash_balance, sessions, fetched, buying>>

ClearAllStock(log) ==
    \E fault \in ClearFaults :
        LET r == clear_all_stock(portfolio, user_id, fault)
        IN  /\ portfolio' = r.portfolio
            /\ cash_balance' = cash_balance
            /\ Record(log, Call("clear_all_stock", "", 0, 0, NoQuote,
                                fault, r.result))
            /\ UNCHANGED <<self_cash_balance, sessions, fetched, buying>>

Next ==
    \/ UpdateCashBalance(FALSE)
    \/ AddStockToPortfolio(FALSE)
    \/ RemoveStockFromHolding(FALSE)
    \/ BuyStock(FALSE)
    \/ SellStock(FALSE)
    \/ ClearAllStock(FALSE)

Spec == Init /\ [][Next]_vars

NextLog ==
    \/ UpdateCashBalance(TRUE)
    \/ AddStockToPortfolio(TRUE)
    \/ RemoveStockFromHolding(TRUE)
    \/ BuyStock(TRUE)
    \/ SellStock(TRUE)
    \/ ClearAllStock(TRUE)

SpecLog == Init /\ [][NextLog]_vars

\* The operations that write table portfolio, in any order: cash comes
\* from sales only.
NextHoldings ==
    \/ AddStockToPortfolio(FALSE)
    \/ RemoveStockFromHolding(FALSE)
    \/ BuyStock(FALSE)
    \/ SellStock(FALSE)
    \/ ClearAllStock(FALSE)

SpecHoldings == Init /\ [][NextHoldings]_vars

\* ------------------------------------------------------------ sessions
\* One call of login_user and of logout_user for user uid.  The calls are
\* not kept in `last`.
Login(uid, fault) ==
    LET r == login_user(cash_balance, portfolio, sessions[uid], fault)
    IN  /\ Reached(fault, r.result)
        /\ WithinBounds(r.cash, r.portfolio)
        /\ cash_balance' = r.cash
        /\ portfolio' = r.portfolio
        /\ sessions' = [sessions EXCEPT ![uid] = r.session]
        /\ UNCHANGED <<self_cash_balance, last, fetched, buying>>

Logout(uid, fault) ==
    LET r == logout_user(cash_balance, portfolio, self_cash_balance,
                         sessions[uid], fault)
    IN  /\ Reached(fault, r.result)
        /\ WithinBounds(r.cash, r.portfolio)
        /\ cash_balance' = r.cash
        /\ portfolio' = r.portfolio
        /\ sessions' = [sessions EXCEPT ![uid] = r.session]
        /\ UNCHANGED <<self_cash_balance, last, fetched, buying>>

LoginUser == \E uid \in SessionUsers, fault \in LoginFaults : Login(uid, fault)

LogoutUser == \E uid \in SessionUsers, fault \in LogoutFaults : Logout(uid, fault)

\* UserProfile(cash_balance=c) with c >= 0, no holdings, no session document.
InitSession ==
    /\ cash_balance = 0
    /\ portfolio = <<>>
    /\ self_cash_balance \in 0 .. MaxOpening
    /\ sessions = [u \in AppUsers |-> NoSession]
    /\ last = NoCall
    /\ fetched = NoFetch
    /\ buying = [c \in Callers |-> Idle]

NextSession ==
    \/ UpdateCashBalance(FALSE)
    \/ AddStockToPortfolio(FALSE)
    \/ RemoveStockFromHolding(FALSE)
    \/ BuyStock(FALSE)
    \/ SellStock(FALSE)
    \/ ClearAllStock(FALSE)
    \/ LoginUser
    \/ LogoutUser

SpecSession == InitSession /\ [][NextSession]_vars

\* ------------------------------------------------------- shared profile
\* Two users of the application log in, deposit, add stock and log out;
\* every route works on the same user_profile_model.
LoginAppUser == \E uid \in AppUsers : Login(uid, "none")

LogoutAppUser == \E uid \in AppUsers : Logout(uid, "none")

NextShared ==
    \/ UpdateCashBalance(FALSE)
    \/ AddStockToPortfolio(FALSE)
    \/ LoginAppUser
    \/ LogoutAppUser

SpecShared == Init /\ [][NextShared]_vars

\* ------------------------------------------------------ historical data
\* One call of fetch_historical_data; `fetched` keeps the call and the way
\* it ended.
FetchHistoricalData ==
    \E start_date \in DateTexts, end_date \in DateTexts, response \in Responses :
        /\ fetched' = [op |-> "fetch_historical_data",
                       start_date |-> start_date, end_date |-> end_date,
                       response |-> response,
                       outcome |-> fetch_historical_data(start_date, end_date,
                                                         response)]
        /\ UNCHANGED <<cash_balance, portfolio, self_cash_balance, sessions, last,
                       buying>>

NextHistory == FetchHistoricalData

SpecHistory == Init /\ [][NextHistory]_vars

\* ---------------------------------------------------- interleaved buys
\* Two callers run buy_stock on the same ledger, statement by statement.
\* The database lets one connection write at a time: the UPDATE of a
\* caller waits while another caller has debited and not yet committed.

\* Caller c evaluates quantity < 1, fetches the price, reads cash_balance
\* and compares it with total_cost.  (A call that stops at the quantity or
\* at the price changes nothing and is left out.)
BuyCheck(c) ==
    \E symbol \in Symbols, quantity \in 1 .. MaxHold, price \in Prices :
        /\ buying[c].pc = "idle"
        /\ buying' = [buying EXCEPT ![c] =
                         IF cash_balance < price * quantity
                         THEN Idle
                         ELSE [pc |-> "checked", symbol |-> symbol,
                               quantity |-> quantity,
                               total_cost |-> price * quantity]]
        /\ UNCHANGED <<cash_balance, portfolio, self_cash_balance, sessions,
                       last, fetched>>

\* UPDATE users SET cash_balance = cash_balance - ?, not yet committed.
BuyDebit(c) ==
    /\ buying[c].pc = "checked"
    /\ \A other \in Callers : buying[other].pc \notin {"debited", "added"}
    /\ buying' = [buying EXCEPT ![c].pc = "debited"]
    /\ UNCHANGED <<cash_balance, portfolio, self_cash_balance, sessions,
                   last, fetched>>

\* self.add_stock_to_portfolio(...): its own connection, its own commit.
BuyAdd(c) ==
    /\ buying[c].pc = "debited"
    /\ LET r == add_stock_to_portfolio(portfolio, user_id, buying[c].symbol,
                                       buying[c].quantity, "none")
       IN  /\ WithinBounds(cash_balance, r.portfolio)
           /\ portfolio' = r.portfolio
           /\ buying' = [buying EXCEPT ![c] =
                            IF r.result = "ok" THEN [@ EXCEPT !.pc = "added"]
                            ELSE Idle]
    /\ UNCHANGED <<cash_balance, self_cash_balance, sessions, last, fetched>>

\* conn.commit(): the debit becomes visible.
BuyCommit(c) ==
    /\ buying[c].pc = "added"
    /\ cash_balance - buying[c].total_cost >= -MaxDebt
    /\ cash_balance' = cash_balance - buying[c].total_cost
    /\ buying' = [buying EXCEPT ![c] = Idle]
    /\ UNCHANGED <<portfolio, self_cash_balance, sessions, last, fetched>>

\* A ledger with some cash and no holdings, nobody buying.
InitRace ==
    /\ cash_balance \in 0 .. MaxCash
    /\ portfolio = <<>>
    /\ self_cash_balance = 0
    /\ sessions = [u \in AppUsers |-> NoSession]
    /\ last = NoCall
    /\ fetched = NoFetch
    /\ buying = [c \in Callers |-> Idle]

NextRace ==
    \E c \in Callers :
        \/ BuyCheck(c)
        \/ BuyDebit(c)
        \/ BuyAdd(c)
        \/ BuyCommit(c)

SpecRace == InitRace /\ [][NextRace]_vars

\* ------------------------------------------------------------- outcomes
\* What a call made in the current state returns.
BuyOutcome(symbol, quantity, quote, fault) ==
    buy_stock(cash_balance, portfolio, symbol, quantity, quote, fault)

SellOutcome(symbol, quantity, quote, fault) ==
    sell_stock(cash_balance, portfolio, symbol, quantity, quote, fault)

\* update_cash_balance writes table users only.
UpdateCashOutcome(amount, fault) ==
    LET r == update_cash_balance(cash_balance, amount, fault)
    IN  [cash |-> r.cash, portfolio |-> portfolio, result |-> r.result]

\* add_stock_to_portfolio and remove_stock_from_holding write table
\* portfolio only.
AddOutcome(symbol, quantity, fault) ==
    LET r == add_stock_to_portfolio(portfolio, user_id, symbol, quantity, fault)
    IN  [cash |-> cash_balance, portfolio |-> r.portfolio, result |-> r.result]

RemoveOutcome(symbol, quantity, fault) ==
    LET r == remove_stock_from_holding(portfolio, user_id, symbol, quantity, fault)
    IN  [cash |-> cash_balance, portfolio |-> r.portfolio, result |-> r.result]

\* clear_all_stock writes table portfolio only.
ClearOutcome(cash, rows, fault) ==
    LET r == clear_all_stock(rows, user_id, fault)
    IN  [cash |-> cash, portfolio |-> r.portfolio, result |-> r.result]

AddRouteOutcome(symbol, quantity, bought_price, fault) ==
    LET r == add_stock_to_portfolio_route(portfolio, symbol, quantity, bought_price, fault)
    IN  [cash |-> cash_balance, portfolio |-> r.portfolio, result |-> r.result]

\* The holdings a caller can see, now and after a call.
Holdings == get_portfolio(portfolio, user_id)
HeldNow(symbol) == Held(portfolio, user_id, symbol)

\* The call changed the holding of no symbol but `symbol`.
OthersUnchanged(r, symbol) ==
    \A other \in Symbols \ {symbol} :
        Held(r.portfolio, user_id, other) = HeldNow(other)

\* Under SpecLog: the step is a call of buy_stock or sell_stock.
Traded == last'.op \in {"buy_stock", "sell_stock"}

\* Under SpecLog: the step left cash and the visible holdings as they were.
StepKeepsLedger ==
    /\ cash_balance' = cash_balance
    /\ get_portfolio(portfolio', user_id) = Holdings

\* ---------------------------------------------------------------- C1
\* C1: cash_balance is never negative, whatever sequence of ledger
\* operations ran.  (Checked under SpecLog.)
C1_CashNeverNegative == cash_balance >= 0

\* ---------------------------------------------------------------- C2
\* C2: get_portfolio shows a symbol exactly when a positive quantity of it
\* is held: no live row carries a quantity of zero or less, and no symbol
\* has two live rows.
C2_VisibleIffPositive ==
    \A symbol \in Symbols :
        LET live == LiveRows(portfolio, user_id, symbol)
            current_quantity ==
                IF live = {} THEN 0 ELSE portfolio[SetMin(live)].quantity
        IN  /\ \A i \in live : portfolio[i].quantity > 0
            /\ Cardinality(live) <= 1
            /\ (symbol \in DOMAIN Holdings) <=> (current_quantity > 0)
            /\ symbol \in DOMAIN Holdings => Holdings[symbol] = current_quantity

\* A symbol whose shares were all removed: its row is still in the table,
\* marked deleted, and get_portfolio does not show it, while another symbol
\* is held.
C2_Witness ==
    \E symbol \in Symbols, other \in Symbols :
        /\ AllRows(portfolio, user_id, symbol) # {}
        /\ symbol \notin DOMAIN Holdings
        /\ other \in DOMAIN Holdings

\* ---------------------------------------------------------------- C3
\* C3: a buy_stock or sell_stock that fails, at whichever step, leaves
\* cash_balance and the holdings as they were before the call.  (Checked
\* under SpecLog, for trades at a positive price, where a debit or credit
\* that went missing shows in cash_balance.)
C3_FailedTradeChangesNothing ==
    [][(Traded /\ last'.result # "ok" /\ last'.quote.price > 0)
       => StepKeepsLedger]_vars

\* ---------------------------------------------------------------- C4
\* C4: a buy whose cost, quantity times the fetched price, exceeds
\* cash_balance fails, with InsufficientFunds once the balance was read,
\* and changes neither cash_balance nor any row.
C4_BuyBeyondFundsFails ==
    \A symbol \in Symbols, quantity \in Quantities, quote \in QuoteOutcomes,
       fault \in BuyFaults :
        (quantity >= 1 /\ quote.ok /\ quantity * quote.price > cash_balance)
        => LET r == BuyOutcome(symbol, quantity, quote, fault)
           IN  /\ r.result # "ok"
               /\ fault # "select" => r.result = "InsufficientFunds"
               /\ r.cash = cash_balance
               /\ r.portfolio = portfolio

\* A ledger with some cash and a holding, in which a buy costs more than
\* the cash and is refused.
C4_Witness ==
    \E symbol \in Symbols, quantity \in Quantities, quote \in QuoteOutcomes :
        /\ quantity >= 1 /\ quote.ok
        /\ cash_balance > 0
        /\ HeldNow(symbol) > 0
        /\ quantity * quote.price > cash_balance
        /\ BuyOutcome(symbol, quantity, quote, "none").result = "InsufficientFunds"

C7_SellBeyondHoldingFails ==
    \A symbol \in Symbols, quantity \in Quantities, quote \in QuoteOutcomes,
       fault \in SellFaults :
        (symbol \notin DOMAIN Holdings \/ quantity > HeldNow(symbol))
        => LET r == SellOutcome(symbol, quantity, quote, fault)
           IN  /\ r.result # "ok"
               /\ (quantity >= 1 /\ quote.ok /\ fault # "select")
                     => r.result = "NotEnoughShares"
               /\ r.cash = cash_balance
               /\ r.portfolio = portfolio

\* Both cases at once: one symbol held with fewer shares than asked for,
\* another sold out earlier (its row deleted), and both sales refused.
C7_Witness ==
    \E symbol \in Symbols, gone \in Symbols, quote \in QuoteOutcomes :
        /\ quote.ok /\ quote.price > 0
        /\ HeldNow(symbol) = 1
        /\ SellOutcome(symbol, 2, quote, "none").result = "NotEnoughShares"
        /\ gone \notin DOMAIN Holdings
        /\ AllRows(portfolio, user_id, gone) # {}
        /\ SellOutcome(gone, 1, quote, "none").result = "NotEnoughShares"

\* ---------------------------------------------------------------- C8
\* C8: one buy_stock or sell_stock call looks the price up at most once,
\* and whenever it moves cash it moves it by quantity times that one
\* fetched price.
C8_OneFetchOnePrice ==
    \A symbol \in Symbols, quantity \in Quantities, quote \in QuoteOutcomes :
        /\ \A fault \in BuyFaults :
              LET r == BuyOutcome(symbol, quantity, quote, fault)
              IN  /\ r.fetches <= 1
                  /\ r.cash # cash_balance =>
                        /\ r.fetches = 1
                        /\ r.cash = cash_balance - quantity * quote.price
        /\ \A fault \in SellFaults :
              LET r == SellOutcome(symbol, quantity, quote, fault)
              IN  /\ r.fetches <= 1
                  /\ r.cash # cash_balance =>
                        /\ r.fetches = 1
                        /\ r.cash = cash_balance + quantity * quote.price

\* A buy and a sale that both go through at a positive price, each after
\* one lookup.
C8_Witness ==
    \E symbol \in Symbols, quantity \in Quantities, quote \in QuoteOutcomes :
        /\ quantity >= 1 /\ quote.ok /\ quote.price > 0
        /\ LET b == BuyOutcome(symbol, quantity, quote, "none")
               s == SellOutcome(symbol, quantity, quote, "none")
           IN  /\ b.result = "ok" /\ b.fetches = 1 /\ b.cash < cash_balance
               /\ s.result = "ok" /\ s.fetches = 1 /\ s.cash > cash_balance

\* ---------------------------------------------------------------- C9
\* C9: a buy or a sale whose price lookup raises or answers a price of
\* zero or less fails and changes nothing: no trade is executed at a price
\* of zero or less.  (Checked under SpecLog, with no database failure; the
\* formula asks that the call fails, whatever error it fails with.)
C9_NoTradeAtNonPositivePrice ==
    [][(/\ Traded
        /\ last'.quantity >= 1
        /\ last'.fault = "none"
        /\ ~last'.quote.ok \/ last'.quote.price <= 0)
       => (last'.result # "ok" /\ StepKeepsLedger)]_vars

\* ---------------------------------------------------------------- C10
\* C10: update_cash_balance(amount) with cash_balance + amount < 0 fails
\* with InsufficientFunds and leaves cash_balance as it was.  (Checked
\* under SpecLog.)
C10_OverdraftRefused ==
    [][(/\ last'.op = "update_cash_balance"
        /\ cash_balance + last'.amount < 0)
       => (last'.result = "InsufficientFunds" /\ cash_balance' = cash_balance)]_vars

C12_AddRaisesHoldingByQuantity ==
    \A symbol \in Symbols, quantity \in Quantities :
        quantity >= 1
        => LET r == AddOutcome(symbol, quantity, "none")
               after == get_portfolio(r.portfolio, user_id)
           IN  /\ r.result = "ok"
               /\ symbol \in DOMAIN after
               /\ after[symbol] = HeldNow(symbol) + quantity
               /\ symbol \notin DOMAIN Holdings => after[symbol] = quantity
               /\ OthersUnchanged(r, symbol)
               /\ r.cash = cash_balance

\* One symbol is held and takes more shares; another was held and sold out
\* (its row is marked deleted) and comes back with the quantity of the call.
C12_Witness ==
    \E symbol \in Symbols, gone \in Symbols :
        /\ cash_balance > 0
        /\ HeldNow(symbol) = 1
        /\ Held(AddOutcome(symbol, 2, "none").portfolio, user_id, symbol) = 3
        /\ gone \notin DOMAIN Holdings
        /\ AllRows(portfolio, user_id, gone) # {}
        /\ Held(AddOutcome(gone, 2, "none").portfolio, user_id, gone) = 2

\* ---------------------------------------------------------------- C13
\* C13: each holding carries an average cost, the quantity-weighted
\* average of the prices its shares were added or bought at, which only
\* adding and buying change.  The formula asks for the first of it: every
\* row that get_portfolio shows has an average_cost, and it is not
\* negative.
C13_HoldingCarriesAverageCost ==
    \A i \in 1 .. Len(portfolio) :
        (portfolio[i].user_id = user_id /\ portfolio[i].deleted = 0)
        => /\ "average_cost" \in DOMAIN portfolio[i]
           /\ portfolio[i].average_cost >= 0

\* ---------------------------------------------------------------- C14
\* C14: remove_stock_from_holding(symbol, quantity) with
\* 1 <= quantity <= held quantity takes exactly quantity off the holding of
\* the symbol when no statement raises; at zero the symbol is no longer
\* among the holdings; the other symbols and cash_balance stay as they were.
C14_RemoveLowersHoldingByQuantity ==
    \A symbol \in Symbols, quantity \in Quantities :
        (quantity >= 1 /\ quantity <= HeldNow(symbol))
        => LET r == RemoveOutcome(symbol, quantity, "none")
               after == get_portfolio(r.portfolio, user_id)
           IN  /\ r.result = "ok"
               /\ Held(r.portfolio, user_id, symbol) = HeldNow(symbol) - quantity
               /\ (symbol \in DOMAIN after) <=> (quantity < HeldNow(symbol))
               /\ OthersUnchanged(r, symbol)
               /\ r.cash = cash_balance

\* A holding of two shares next to another holding: taking one share
\* leaves one, taking both removes the entry.
C14_Witness ==
    \E symbol \in Symbols, other \in Symbols :
        /\ other # symbol /\ HeldNow(other) > 0
        /\ cash_balance > 0
        /\ HeldNow(symbol) = 2
        /\ Held(RemoveOutcome(symbol, 1, "none").portfolio, user_id, symbol) = 1
        /\ symbol \notin DOMAIN get_portfolio(RemoveOutcome(symbol, 2, "none").portfolio,
                                              user_id)

\* ---------------------------------------------------------------- C15
\* C15: remove_stock_from_holding with quantity >= 1 fails with NotFound
\* when the symbol is not held, a symbol that was held and fully removed
\* included, and with InsufficientQuantity when quantity exceeds the held
\* quantity (in both cases once the row was read); the rows are as before.
C15_RemoveRefused ==
    \A symbol \in Symbols, quantity \in Quantities, fault \in RemoveFaults :
        LET r == RemoveOutcome(symbol, quantity, fault)
        IN  /\ (quantity >= 1 /\ symbol \notin DOMAIN Holdings)
                 => /\ r.result # "ok"
                    /\ fault # "select" => r.result = "NotFound"
                    /\ r.portfolio = portfolio
            /\ (quantity >= 1 /\ symbol \in DOMAIN Holdings /\ quantity > HeldNow(symbol))
                 => /\ r.result # "ok"
                    /\ fault # "select" => r.result = "InsufficientQuantity"
                    /\ r.portfolio = portfolio

\* Both cases at once: one symbol held with one share, of which two are
\* asked for, and another that was held and fully removed.
C15_Witness ==
    \E symbol \in Symbols, gone \in Symbols :
        /\ HeldNow(symbol) = 1
        /\ RemoveOutcome(symbol, 2, "none").result = "InsufficientQuantity"
        /\ gone \notin DOMAIN Holdings
        /\ AllRows(portfolio, user_id, gone) # {}
        /\ RemoveOutcome(gone, 1, "none").result = "NotFound"

\* ---------------------------------------------------------------- C16
\* C16: add_stock_to_portfolio, remove_stock_from_holding, buy_stock and
\* sell_stock called with quantity < 1 fail with InvalidArgument and leave
\* cash_balance and the rows as they were; add_stock_to_portfolio also
\* fails with InvalidArgument for a price below zero.
C16_BadArgumentRefused ==
    /\ \A symbol \in Symbols, quantity \in Quantities :
          quantity < 1
          => /\ \A fault \in AddFaults :
                   LET r == AddOutcome(symbol, quantity, fault)
                   IN  /\ r.result = "InvalidArgument"
                       /\ r.cash = cash_balance /\ r.portfolio = portfolio
             /\ \A fault \in RemoveFaults :
                   LET r == RemoveOutcome(symbol, quantity, fault)
                   IN  /\ r.result = "InvalidArgument"
                       /\ r.cash = cash_balance /\ r.portfolio = portfolio
             /\ \A quote \in QuoteOutcomes, fault \in BuyFaults :
                   LET r == BuyOutcome(symbol, quantity, quote, fault)
                   IN  /\ r.result = "InvalidArgument"
                       /\ r.cash = cash_balance /\ r.portfolio = portfolio
             /\ \A quote \in QuoteOutcomes, fault \in SellFaults :
                   LET r == SellOutcome(symbol, quantity, quote, fault)
                   IN  /\ r.result = "InvalidArgument"
                       /\ r.cash = cash_balance /\ r.portfolio = portfolio
    /\ \A symbol \in Symbols, quantity \in Quantities, bought_price \in BoughtPrices :
          bought_price < 0
          => LET r == AddRouteOutcome(symbol, quantity, bought_price, "none")
             IN  /\ r.result = "InvalidArgument"
                 /\ r.cash = cash_balance /\ r.portfolio = portfolio

\* ---------------------------------------------------------------- C17
\* C17: the clear operation is unconditional: from any reachable state it
\* leaves no holding and a cash_balance of 0.  (Checked under SpecLog, for
\* the calls in which no statement raises, made with a cash_balance that is
\* not negative.)
C17_ClearEmptiesLedger ==
    [][(last'.op = "clear_all_stock" /\ last'.fault = "none" /\ cash_balance >= 0)
       => /\ last'.result = "ok"
          /\ get_portfolio(portfolio', user_id) = <<>>
          /\ cash_balance' = 0]_vars

\* ---------------------------------------------------------------- C18
\* C18: the clear operation is idempotent: from any reachable state, two
\* calls in a row leave the same holdings, the same rows and the same
\* cash_balance as one call.
C18_ClearIdempotent ==
    LET once == ClearOutcome(cash_balance, portfolio, "none")
        twice == ClearOutcome(once.cash, once.portfolio, "none")
    IN  /\ once.result = "ok" /\ twice.result = "ok"
        /\ twice.portfolio = once.portfolio
        /\ get_portfolio(twice.portfolio, user_id) = get_portfolio(once.portfolio, user_id)
        /\ twice.cash = once.cash

\* A ledger with cash, a holding and a row deleted earlier, which the
\* first call changes.
C18_Witness ==
    /\ cash_balance > 0
    /\ Holdings # <<>>
    /\ \E i \in 1 .. Len(portfolio) : portfolio[i].deleted = 1
    /\ ClearOutcome(cash_balance, portfolio, "none").portfolio # portfolio
    /\ get_portfolio(ClearOutcome(cash_balance, portfolio, "none").portfolio, user_id) = <<>>

\* ------------------------------------------------------------ sessions
\* What login_user and logout_user for user uid return in the current
\* state.
LoginOutcome(uid, fault) ==
    login_user(cash_balance, portfolio, sessions[uid], fault)

LogoutOutcome(uid, fault) ==
    logout_user(cash_balance, portfolio, self_cash_balance, sessions[uid], fault)

\* ---------------------------------------------------------------- C19
\* C19: snapshot round trip: from any reachable ledger state, a successful
\* logout_user followed by login_user for the same user gives back the
\* same holdings and the same cash_balance (and so does any number of
\* repetitions).  (Checked under SpecSession.)
C19_SnapshotRoundTrip ==
    \A uid \in SessionUsers :
        LET out == LogoutOutcome(uid, "none")
            back == login_user(out.cash, out.portfolio, out.session, "none")
        IN  (out.result = "ok" /\ back.result = "ok")
            => /\ get_portfolio(back.portfolio, user_id) = Holdings
               /\ back.cash = cash_balance

\* ---------------------------------------------------------------- C20
\* C20: after login_user for a user whose session document exists, the
\* holdings and cash_balance of the profile are exactly the
\* current_stock_holding and cash_balance of that document, whatever the
\* profile held before.  (Checked under SpecSession, for the calls in which
\* no statement raises, made with a cash_balance that is not negative.)
C20_LoginRestoresDocument ==
    \A uid \in SessionUsers :
        (sessions[uid].found /\ cash_balance >= 0)
        => LET r == LoginOutcome(uid, "none")
           IN  /\ r.result = "ok"
               /\ get_portfolio(r.portfolio, user_id)
                     = sessions[uid].current_stock_holding
               /\ r.cash = sessions[uid].cash_balance

\* ---------------------------------------------------------------- C21
\* C21: login_user for a user with no session document inserts the one
\* document of that user, with no holdings and a cash_balance of 0.0, and
\* neither clears nor adds anything to the profile.  (Checked under
\* SpecShared, whatever the other user has stored.)
C21_FirstLoginInsertsEmptyDocument ==
    \A uid \in AppUsers :
        ~sessions[uid].found
        => LET r == LoginOutcome(uid, "none")
           IN  /\ r.result = "ok"
               /\ r.session = SessionDocument(<<>>, 0)
               /\ r.portfolio = portfolio
               /\ r.cash = cash_balance

\* A first login into a profile that has cash, a holding and a row deleted
\* earlier.
C21_Witness ==
    \E uid \in AppUsers :
        /\ ~sessions[uid].found
        /\ cash_balance > 0
        /\ Holdings # <<>>
        /\ \E i \in 1 .. Len(portfolio) : portfolio[i].deleted = 1
        /\ LoginOutcome(uid, "none").session.found

\* ---------------------------------------------------------------- C22
\* C22: logout_user for a user with a session document writes the current
\* holdings and the current cash balance of the profile into that
\* document and then clears the profile: after a successful logout the
\* stored snapshot equals the ledger before the logout and the profile
\* holds nothing.  (Checked under SpecSession, for the calls in which no
\* statement raises, made with a cash_balance that is not negative on a
\* profile constructed as UserProfile().)
C22_LogoutStoresLedger ==
    \A uid \in SessionUsers :
        (sessions[uid].found /\ cash_balance >= 0 /\ self_cash_balance = 0)
        => LET r == LogoutOutcome(uid, "none")
           IN  /\ r.result = "ok"
               /\ r.session.found
               /\ r.session.current_stock_holding = Holdings
               /\ r.session.cash_balance = cash_balance
               /\ get_portfolio(r.portfolio, user_id) = <<>>

\* ---------------------------------------------------------------- C23
\* C23: logout_user for a user with no session document raises ValueError
\* (once get_portfolio and update_one themselves did not raise), creates no
\* document and leaves the holdings and the cash balance of the profile as
\* they were.  (Checked under SpecShared, whatever the other user has
\* stored.)
C23_LogoutWithoutDocumentRefused ==
    \A uid \in AppUsers, fault \in LogoutFaults :
        ~sessions[uid].found
        => LET r == LogoutOutcome(uid, fault)
           IN  /\ r.result # "ok"
               /\ fault \notin {"select", "update"} => r.result = "NoSession"
               /\ r.session = sessions[uid]
               /\ r.portfolio = portfolio
               /\ r.cash = cash_balance

\* A logout without a document from a profile that has cash and a holding.
C23_Witness ==
    \E uid \in AppUsers :
        /\ ~sessions[uid].found
        /\ cash_balance > 0
        /\ Holdings # <<>>
        /\ LogoutOutcome(uid, "none").result = "NoSession"

\* ---------------------------------------------------------------- C24
\* C24: a ledger is never shared across users: once user a has a session,
\* the first login of another user b shows b no holdings and a cash
\* balance of zero, and a logout of b that follows at once stores no
\* holdings.  (Checked under SpecShared, for the calls in which no
\* statement raises, made with a cash_balance that is not negative.)
C24_LedgerNotShared ==
    \A a \in AppUsers, b \in AppUsers :
        (a # b /\ sessions[a].found /\ ~sessions[b].found /\ cash_balance >= 0)
        => LET r == LoginOutcome(b, "none")
               out == logout_user(r.cash, r.portfolio, self_cash_balance,
                                  r.session, "none")
           IN  r.result = "ok"
               => /\ get_portfolio(r.portfolio, user_id) = <<>>
                  /\ r.cash = 0
                  /\ out.result = "ok"
                        => out.session.current_stock_holding = <<>>

\* ------------------------------------------------------ historical data
\* The most recent call of fetch_historical_data got as far as the filter:
\* both dates were accepted and requests.get answered 200 with a body that
\* has no "Error Message".
Answered ==
    /\ fetched.op = "fetch_historical_data"
    /\ fetched.outcome.requests = 1
    /\ ~fetched.response.raised
    /\ fetched.response.status_code = 200
    /\ ~fetched.response.error_message

\* t has the form YYYY-MM-DD: four digits, two digits and two digits, with
\* "-" between them.
InFormat(t) ==
    /\ Len(t) = 10
    /\ \A i \in {1, 2, 3, 4, 6, 7, 9, 10} : IsDigit(t[i])
    /\ t[5] = "-" /\ t[8] = "-"

\* Day a is not after day b.
DateLeq(a, b) ==
    \/ a.year < b.year
    \/ a.year = b.year /\ a.month < b.month
    \/ a.year = b.year /\ a.month = b.month /\ a.day <= b.day

\* The days of the series from day `from` to day `to`, in upstream order.
RECURSIVE EntriesBetween(_, _, _)
EntriesBetween(time_series, from, to) ==
    IF time_series = <<>> THEN <<>>
    ELSE LET day == Head(time_series)
             on == strptime(day.date)
             rest == EntriesBetween(Tail(time_series), from, to)
         IN  IF DateLeq(from, on) /\ DateLeq(on, to)
             THEN <<HistoricalEntry(day.date, day.daily_data)>> \o rest
             ELSE rest

\* ---------------------------------------------------------------- C25
\* C25: fetch_historical_data raises ValueError for a start_date or an
\* end_date that is not of the form YYYY-MM-DD, and has then called
\* requests.get zero times.  (Checked under SpecHistory.)
C25_MalformedDateRefused ==
    (/\ fetched.op = "fetch_historical_data"
     /\ ~InFormat(fetched.start_date) \/ ~InFormat(fetched.end_date))
    => /\ fetched.outcome.result = "ValueError"
       /\ fetched.outcome.requests = 0

\* ---------------------------------------------------------------- C26
\* C26: for a valid symbol with a non-empty upstream series,
\* fetch_historical_data returns exactly the days of the series from
\* start_date to end_date, both included, in upstream order; the list is
\* empty when no day is in the range.  (Checked under SpecHistory.)
C26_ReturnsDaysInRange ==
    (Answered /\ fetched.response.time_series # <<>>)
    => /\ fetched.outcome.result = "ok"
       /\ fetched.outcome.data
             = EntriesBetween(fetched.response.time_series,
                              strptime(fetched.start_date),
                              strptime(fetched.end_date))

MovedBy(r, symbol, by) ==
    /\ \A any \in Symbols :
           Cardinality(LiveRows(r.portfolio, user_id, any)) <= 1
    /\ Held(r.portfolio, user_id, symbol) = HeldNow(symbol) + by
    /\ OthersUnchanged(r, symbol)

\* C29: in any sequence of add_stock_to_portfolio,
\* remove_stock_from_holding, buy_stock, sell_stock and clear_all_stock the
\* table has at most one row that is not deleted per symbol, and the
\* visible quantity of a symbol is what was added minus what was removed
\* since it was last sold out or cleared: a call that succeeds moves it by
\* exactly its quantity (clear: to zero), a call that is refused does not
\* move it, a trade in which a statement raises moves it by its quantity or
\* not at all; rows marked deleted never count.  (Checked under
\* SpecHoldings; the trades in which a statement raises are made at price
\* 0, which every balance can pay, so that each statement is reached.)
C29_OneLiveRowCarriesTheSum ==
    /\ \A symbol \in Symbols :
           Cardinality(LiveRows(portfolio, user_id, symbol)) <= 1
    /\ \A symbol \in Symbols, quantity \in Quantities :
        /\ \A fault \in AddFaults :
               LET r == AddOutcome(symbol, quantity, fault)
               IN  MovedBy(r, symbol, IF r.result = "ok" THEN quantity ELSE 0)
        /\ \A fault \in RemoveFaults :
               LET r == RemoveOutcome(symbol, quantity, fault)
               IN  MovedBy(r, symbol, IF r.result = "ok" THEN -quantity ELSE 0)
        /\ \A quote \in QuoteOutcomes :
            /\ LET r == BuyOutcome(symbol, quantity, quote, "none")
               IN  MovedBy(r, symbol, IF r.result = "ok" THEN quantity ELSE 0)
            /\ LET r == SellOutcome(symbol, quantity, quote, "none")
               IN  MovedBy(r, symbol, IF r.result = "ok" THEN -quantity ELSE 0)
        /\ \A fault \in BuyFaults \ {"none"} :
               LET r == BuyOutcome(symbol, quantity, [ok |-> TRUE, price |-> 0], fault)
                   by == Held(r.portfolio, user_id, symbol) - HeldNow(symbol)
               IN  by \in {0, quantity} /\ MovedBy(r, symbol, by)
        /\ \A fault \in SellFaults \ {"none"} :
               LET r == SellOutcome(symbol, quantity, [ok |-> TRUE, price |-> 0], fault)
                   by == Held(r.portfolio, user_id, symbol) - HeldNow(symbol)
               IN  by \in {0, -quantity} /\ MovedBy(r, symbol, by)
        /\ LiveRows(ClearOutcome(cash_balance, portfolio, "none").portfolio,
                    user_id, symbol) = {}
        /\ \A fault \in ClearFaults \ {"none"} :
               get_portfolio(ClearOutcome(cash_balance, portfolio, fault).portfolio,
                             user_id) = Holdings

\* A symbol was sold out and added again: the table has a deleted row and
\* a live row of it, and the next add, remove, buy and sell move the
\* quantity of the live row.
C29_Witness ==
    \E symbol \in Symbols :
        /\ \E i \in AllRows(portfolio, user_id, symbol) : portfolio[i].deleted = 1
        /\ LiveRows(portfolio, user_id, symbol) # {}
        /\ HeldNow(symbol) = 1
        /\ Held(AddOutcome(symbol, 1, "none").portfolio, user_id, symbol) = 2
        /\ Held(RemoveOutcome(symbol, 1, "none").portfolio, user_id, symbol) = 0
        /\ Held(BuyOutcome(symbol, 1, [ok |-> TRUE, price |-> 0], "none").portfolio,
                user_id, symbol) = 2
        /\ Held(SellOutcome(symbol, 1, [ok |-> TRUE, price |-> 1], "none").portfolio,
                user_id, symbol) = 0

====
